---------------------------- MODULE Spec2Model ----------------------------
(***************************************************************************)
(* A model of bms_watch.py: the text matcher (normalize, contains_all),    *)
(* the listing locator and showtime scanner of run_check(), and the alert  *)
(* state and notifier of main() over a sequence of scheduled runs.         *)
(*                                                                         *)
(* Python strings are modelled as sequences of one-character strings, so   *)
(* that lower-casing, the regular expressions and the substring test are   *)
(* computed character by character.                                        *)
(***************************************************************************)
EXTENDS Integers, Sequences, FiniteSets, TLC

(***************************************************************************)
(* Bounds of the model.                                                    *)
(***************************************************************************)
\* longest generated text handed to the text matcher
MaxTextLen == 3
\* longest generated keyword list handed to the text matcher
MaxKw == 2
\* runs of main() in one behaviour
MaxRuns == 3
\* deletions of the state file from outside the program in one behaviour
MaxResets == 1
\* most listing cards on the listing page
MaxCards == 2
\* most movie anchors on the listing page
MaxAnchors == 2
\* largest configured CHECK_DATES_AHEAD
MaxAhead == 2
\* most date tabs one selector finds
MaxTabs == 3

VARIABLES
    \* ---- text matcher ----
    tpc,              \* "off" | "input" | "normalized" | "done"
    text,             \* the text handed to contains_all
    keywords,         \* the keyword list handed to contains_all
    norm,             \* normalize(text), once computed
    out,              \* the value contains_all returned
    \* ---- main() ----
    pc,               \* "off" | "idle" | "loaded" | "scanned" | "exit0" | "raised"
    file,             \* content of state.json on disk
    state,            \* main's local `state`
    already_alerted,  \* main's local `already_alerted`
    result,           \* main's local `result`
    log,              \* history: one record per run and per outside change
    \* ---- run_check() ----
    rpc,              \* "off" | "listing" | "located" | "detail" | "dates" | "tabs"
                      \*   | "closing" | "returned"
    page,             \* the page the browser shows
    CHECK_DATES_AHEAD,\* the configured number of dates to look ahead
    movie_link,       \* run_check's local `movie_link`
    found_show,       \* run_check's local `found_show`
    theatre_name,     \* run_check's local `theatre_name`
    times,            \* run_check's local `times`
    sel,              \* position of the loop over the date selectors (1-based)
    tabs,             \* number of elements in `tabs`
    ti,               \* index in `tabs` of the next tab of tabs[1:CHECK_DATES_AHEAD + 1]
    ret,              \* the value run_check returned
    hist              \* history: clicks and scans made, first successful scan

textVars == <<tpc, text, keywords, norm, out>>
mainVars == <<pc, file, state, already_alerted, result, log>>
checkVars == <<rpc, page, CHECK_DATES_AHEAD, movie_link, found_show, theatre_name, times,
               sel, tabs, ti, ret, hist>>
vars == <<tpc, text, keywords, norm, out,
          pc, file, state, already_alerted, result, log,
          rpc, page, CHECK_DATES_AHEAD, movie_link, found_show, theatre_name, times,
          sel, tabs, ti, ret, hist>>

(***************************************************************************)
(* Characters.                                                             *)
(***************************************************************************)
UpperCase ==
    <<"A", "B", "C", "D", "E", "F", "G", "H", "I", "J", "K", "L", "M", "N",
      "O", "P", "Q", "R", "S", "T", "U", "V", "W", "X", "Y", "Z">>

LowerCase ==
    <<"a", "b", "c", "d", "e", "f", "g", "h", "i", "j", "k", "l", "m", "n",
      "o", "p", "q", "r", "s", "t", "u", "v", "w", "x", "y", "z">>

Digits ==
    <<"0", "1", "2", "3", "4", "5", "6", "7", "8", "9">>

Range(s) == {s[i] : i \in DOMAIN s}

SpaceChars == {" ", "\t", "\n", "\r"}

UpperChars == Range(UpperCase)

LowerAlnumChars == Range(LowerCase) \cup Range(Digits)

DigitChars == Range(Digits)

WordChars == Range(LowerCase) \cup Range(UpperCase) \cup Range(Digits) \cup {"_"}

\* the lower-case letter of each upper-case letter
LowerOf == [c \in UpperChars |-> LowerCase[CHOOSE i \in DOMAIN UpperCase : UpperCase[i] = c]]

\* the regular expression class \s
IsSpace(c) == c \in SpaceChars

\* the regular expression class [a-z0-9]
IsLowerAlnum(c) == c \in LowerAlnumChars

\* the regular expression class \d
IsDigit(c) == c \in DigitChars

\* the regular expression class \w
IsWord(c) == c \in WordChars

\* str.lower() on one character
LowerChar(c) == IF c \in UpperChars THEN LowerOf[c] ELSE c

\* str.lower()
Lower(s) == [i \in DOMAIN s |-> LowerChar(s[i])]

\* str.strip(): leading and trailing whitespace removed
RECURSIVE LStrip(_)
LStrip(s) ==
    IF s # <<>> /\ IsSpace(Head(s)) THEN LStrip(Tail(s)) ELSE s

RECURSIVE RStrip(_)
RStrip(s) ==
    IF s # <<>> /\ IsSpace(s[Len(s)]) THEN RStrip(SubSeq(s, 1, Len(s) - 1)) ELSE s

Strip(s) == RStrip(LStrip(s))

\* re.sub(r"[^a-z0-9\s]+", " ", s): every maximal run of characters that are
\* neither a lower-case letter, a digit nor whitespace becomes one space
RECURSIVE SubPunct(_, _)
SubPunct(s, inRun) ==
    IF s = <<>> THEN <<>>
    ELSE IF IsLowerAlnum(Head(s)) \/ IsSpace(Head(s))
         THEN <<Head(s)>> \o SubPunct(Tail(s), FALSE)
         ELSE IF inRun THEN SubPunct(Tail(s), TRUE)
              ELSE <<" ">> \o SubPunct(Tail(s), TRUE)

\* re.sub(r"\s+", " ", s): every maximal run of whitespace becomes one space
RECURSIVE SubSpaces(_, _)
SubSpaces(s, inRun) ==
    IF s = <<>> THEN <<>>
    ELSE IF ~IsSpace(Head(s))
         THEN <<Head(s)>> \o SubSpaces(Tail(s), FALSE)
         ELSE IF inRun THEN SubSpaces(Tail(s), TRUE)
              ELSE <<" ">> \o SubSpaces(Tail(s), TRUE)

\* A slip normalize could make: punctuation deleted instead of turned into a
\* space, which is what its docstring ('M.G. Road' ~ 'mg road') describes.
RECURSIVE DropPunct(_)
DropPunct(s) ==
    IF s = <<>> THEN <<>>
    ELSE IF IsLowerAlnum(Head(s)) \/ IsSpace(Head(s))
         THEN <<Head(s)>> \o DropPunct(Tail(s))
         ELSE DropPunct(Tail(s))

normalize_dropping(s) == Strip(SubSpaces(DropPunct(Lower(s)), FALSE))

normalize(s) == Strip(SubSpaces(SubPunct(Lower(s), FALSE), FALSE))

\* Python's `kw in t` on strings: a left-to-right search for kw at each offset
RECURSIVE StrIn(_, _)
StrIn(kw, t) ==
    IF Len(kw) > Len(t) THEN FALSE
    ELSE IF SubSeq(t, 1, Len(kw)) = kw THEN TRUE
    ELSE StrIn(kw, Tail(t))

\* all(kw in t for kw in keywords): stops at the first keyword not found
RECURSIVE AllIn(_, _)
AllIn(kws, t) ==
    IF kws = <<>> THEN TRUE
    ELSE IF ~StrIn(Head(kws), t) THEN FALSE
    ELSE AllIn(Tail(kws), t)

contains_all(t, kws) == AllIn(kws, normalize(t))

(***************************************************************************)
(* Configuration: the defaults of the environment variables.               *)
(***************************************************************************)
MOVIE_KEYWORDS ==
    << <<"d", "e", "m", "o", "n">>, <<"s", "l", "a", "y", "e", "r">>,
       <<"i", "n", "f", "i", "n", "i", "t", "y">>, <<"c", "a", "s", "t", "l", "e">>,
       <<"j", "a", "p", "a", "n", "e", "s", "e">> >>

THEATRE_KEYWORDS ==
    << <<"i", "n", "o", "x">>, <<"l", "a", "i", "l", "a">>, <<"m", "g">>,
       <<"r", "o", "a", "d">> >>

\* "INOX: Laila Mall, M.G. Road"
InoxName ==
    <<"I", "N", "O", "X", ":", " ", "L", "a", "i", "l", "a", " ", "M", "a",
      "l", "l", ",", " ", "M", ".", "G", ".", " ", "R", "o", "a", "d">>

\* "inox laila mall m g road"
InoxNorm ==
    <<"i", "n", "o", "x", " ", "l", "a", "i", "l", "a", " ", "m", "a", "l",
      "l", " ", "m", " ", "g", " ", "r", "o", "a", "d">>

(***************************************************************************)
(* The text matcher applied to generated inputs.                           *)
(***************************************************************************)
Alphabet == {"m", "g", "G", ".", " "}

KeywordPool == {<<"m", "g">>, <<"m", " ", "g">>, <<"g">>, <<>>}

SeqsUpTo(S, n) == UNION {[1..k -> S] : k \in 0..n}

Texts == SeqsUpTo(Alphabet, MaxTextLen) \cup {InoxName}

KeywordLists == SeqsUpTo(KeywordPool, MaxKw) \cup {THEATRE_KEYWORDS}

MainOff ==
    /\ pc = "off"
    /\ file = "off"
    /\ state = "off"
    /\ already_alerted = FALSE
    /\ result = "off"
    /\ log = <<>>

CheckOff ==
    /\ rpc = "off"
    /\ page = "off"
    /\ CHECK_DATES_AHEAD = 0
    /\ movie_link = <<>>
    /\ found_show = FALSE
    /\ theatre_name = <<>>
    /\ times = <<>>
    /\ sel = 0
    /\ tabs = 0
    /\ ti = 0
    /\ ret = "off"
    /\ hist = "off"

TextOff ==
    /\ tpc = "off"
    /\ text = <<>>
    /\ keywords = <<>>
    /\ norm = <<>>
    /\ out = "none"

InitText ==
    /\ tpc = "input"
    /\ text \in Texts
    /\ keywords \in KeywordLists
    /\ norm = <<>>
    /\ out = "none"
    /\ MainOff
    /\ CheckOff

\* contains_all, first half: t = normalize(text)
Normalize ==
    /\ tpc = "input"
    /\ norm' = normalize(text)
    /\ tpc' = "normalized"
    /\ UNCHANGED <<text, keywords, out>>
    /\ UNCHANGED <<mainVars, checkVars>>

\* contains_all, second half: the value returned
ContainsAll ==
    /\ tpc = "normalized"
    /\ out' = contains_all(text, keywords)
    /\ tpc' = "done"
    /\ UNCHANGED <<text, keywords, norm>>
    /\ UNCHANGED <<mainVars, checkVars>>

NextText == Normalize \/ ContainsAll

SpecText == InitText /\ [][NextText]_vars

\* kw occurs in t as a contiguous substring, at some offset
Occurs(kw, t) ==
    \E p \in 0..(Len(t) - Len(kw)) : SubSeq(t, p + 1, p + Len(kw)) = kw

(* C6: contains_all(text, keywords) is true exactly when every keyword is a
   contiguous substring of normalize(text); an empty keyword list gives true;
   and for "INOX: Laila Mall, M.G. Road" with the default theatre keywords
   normalize gives "inox laila mall m g road" and contains_all is false. *)
C6_ContainsAllIffSubstrings ==
    tpc = "done" =>
        /\ out = (\A i \in DOMAIN keywords : Occurs(keywords[i], norm))
        /\ (keywords = <<>> => out = TRUE)
        /\ (text = InoxName => norm = InoxNorm)
        /\ (text = InoxName /\ keywords = THEATRE_KEYWORDS => out = FALSE)

C6_Witness ==
    /\ tpc = "done"
    /\ text = InoxName
    /\ keywords = THEATRE_KEYWORDS
    /\ norm = InoxNorm
    /\ out = FALSE

(***************************************************************************)
(* main(): the alert state and notifier over a sequence of runs.           *)
(***************************************************************************)
\* What state.json can hold.  `alerted` is how the "alerted" key of a JSON
\* object reads: "missing", true, false, another truthy value (1, "yes") or
\* another falsy value (0, null, "").
AlertedValues == {"missing", "true", "false", "truthy", "falsy"}

Absent == [kind |-> "absent", alerted |-> "missing"]

Garbage == [kind |-> "garbage", alerted |-> "missing"]

NonObject == [kind |-> "nonobject", alerted |-> "missing"]

JsonObject(a) == [kind |-> "object", alerted |-> a]

FileContents == {Absent, Garbage, NonObject} \cup {JsonObject(a) : a \in AlertedValues}

\* the Python value {}
EmptyDict == [kind |-> "dict", alerted |-> "missing"]

\* a list, number, string or None, as json.loads returns it
NonDict == [kind |-> "nondict", alerted |-> "missing"]

Unset == [kind |-> "unset", alerted |-> "missing"]

load_state(f) ==
    IF f.kind = "object" THEN [kind |-> "dict", alerted |-> f.alerted]
    ELSE IF f.kind = "nonobject" THEN NonDict
    ELSE EmptyDict

\* json.dumps of the dict, written over the file
save_state(d) == [kind |-> "object", alerted |-> d.alerted]

\* A slip: the flag never read.
AlreadyAlerted_never(st) == FALSE

\* already_alerted = bool(state.get("alerted"))
AlreadyAlerted(st) == st.alerted \in {"true", "truthy"}

NoResult == [status |-> "none", theatre |-> <<>>, times |-> <<>>]

\* what run_check() returns
ScanResults ==
    { [status |-> "no-movie-card", theatre |-> <<>>, times |-> <<>>],
      [status |-> "no-showtimes", theatre |-> <<>>, times |-> <<>>],
      [status |-> "live", theatre |-> <<"I", "N", "O", "X">>,
       times |-> << <<"1", "0", ":", "3", "0">> >>] }

\* what the mail step meets: a configuration variable missing, the SMTP
\* exchange failing, or the message accepted
MailOutcomes == {"missing", "fail", "ok"}

\* send_email: False without configuration, True once the message is sent;
\* an smtplib error is not caught and leaves the function as an exception
send_email(outcome) ==
    IF outcome = "missing" THEN "false"
    ELSE IF outcome = "fail" THEN "raised"
    ELSE "true"

\* A slip: the flag left out of the test.
ShouldSend_any(res, alerted) == res.status = "live"

\* main's test before send_email: result["status"] == "live" and not already_alerted
ShouldSend(res, alerted) == res.status = "live" /\ ~alerted

\* A slip: the state saved whatever send_email returned.
Persist_unconditional(st, sent) == [state |-> [st EXCEPT !.alerted = "true"], wrote |-> 1]

\* A slip: the state saved without the flag set.
Persist_without_flag(st, sent) ==
    IF sent = "true" THEN [state |-> st, wrote |-> 1] ELSE [state |-> st, wrote |-> 0]

\* if send_email(...): state["alerted"] = True; save_state(state)
Persist(st, sent) ==
    IF sent = "true"
    THEN [state |-> [st EXCEPT !.alerted = "true"], wrote |-> 1]
    ELSE [state |-> st, wrote |-> 0]

IsRun(e) == e.ev = "run"

NumRuns == Cardinality({i \in DOMAIN log : log[i].ev = "run"})

NumResets == Cardinality({i \in DOMAIN log : log[i].ev = "reset"})

Cur == Len(log)

InitMain ==
    /\ pc = "idle"
    /\ file \in FileContents
    /\ state = Unset
    /\ already_alerted = FALSE
    /\ result = NoResult
    /\ log = <<>>
    /\ TextOff
    /\ CheckOff

\* state = load_state(); already_alerted = bool(state.get("alerted")).
\* A value that is not a dict has no .get: the AttributeError leaves main.
LoadState ==
    /\ pc = "idle"
    /\ NumRuns < MaxRuns
    /\ state' = load_state(file)
    /\ already_alerted' = IF state'.kind = "dict" THEN AlreadyAlerted(state') ELSE FALSE
    /\ pc' = IF state'.kind = "dict" THEN "loaded" ELSE "raised"
    /\ log' = Append(log, [ev |-> "run", file |-> file, state |-> state',
                           alerted |-> already_alerted', status |-> "none",
                           send |-> "none", wrote |-> 0, after |-> file,
                           exit |-> "running"])
    /\ UNCHANGED <<file, result>>
    /\ UNCHANGED <<textVars, checkVars>>

\* result = run_check()
RunCheck ==
    /\ pc = "loaded"
    /\ \E r \in ScanResults :
        /\ result' = r
        /\ log' = [log EXCEPT ![Cur].status = r.status]
    /\ pc' = "scanned"
    /\ UNCHANGED <<file, state, already_alerted>>
    /\ UNCHANGED <<textVars, checkVars>>

\* run_check() raising: a navigation timeout or a browser failure outside its
\* try blocks
RunCheckRaises ==
    /\ pc = "loaded"
    /\ pc' = "raised"
    /\ UNCHANGED <<file, state, already_alerted, result, log>>
    /\ UNCHANGED <<textVars, checkVars>>

\* the branch on result["status"]: the mail step and the save, then return 0
Notify ==
    /\ pc = "scanned"
    /\ IF ~ShouldSend(result, already_alerted)
       THEN /\ pc' = "exit0"
            /\ UNCHANGED <<file, state, log>>
       ELSE \E o \in MailOutcomes :
            LET sent == send_email(o)
                p == Persist(state, sent)
            IN  IF sent = "raised"
                THEN /\ pc' = "raised"
                     /\ log' = [log EXCEPT ![Cur].send = o]
                     /\ UNCHANGED <<file, state>>
                ELSE /\ pc' = "exit0"
                     /\ state' = p.state
                     /\ file' = IF p.wrote = 1 THEN save_state(p.state) ELSE file
                     /\ log' = [log EXCEPT ![Cur].send = o, ![Cur].wrote = p.wrote,
                                           ![Cur].after = file']
    /\ UNCHANGED <<already_alerted, result>>
    /\ UNCHANGED <<textVars, checkVars>>

\* the process ends: SystemExit(0), or the traceback of an uncaught exception
Exit ==
    /\ pc \in {"exit0", "raised"}
    /\ log' = [log EXCEPT ![Cur].exit = IF pc = "exit0" THEN "0" ELSE "raised"]
    /\ pc' = "idle"
    /\ state' = Unset
    /\ already_alerted' = FALSE
    /\ result' = NoResult
    /\ UNCHANGED file
    /\ UNCHANGED <<textVars, checkVars>>

\* between two runs, state.json deleted from outside the program
ExternalReset ==
    /\ pc = "idle"
    /\ NumResets < MaxResets
    /\ file # Absent
    /\ file' = Absent
    /\ log' = Append(log, [ev |-> "reset", file |-> file, state |-> Unset,
                           alerted |-> FALSE, status |-> "none",
                           send |-> "none", wrote |-> 0, after |-> Absent,
                           exit |-> "0"])
    /\ UNCHANGED <<pc, state, already_alerted, result>>
    /\ UNCHANGED <<textVars, checkVars>>

Next == LoadState \/ RunCheck \/ RunCheckRaises \/ Notify \/ Exit \/ ExternalReset

Spec == InitMain /\ [][Next]_vars

\* no outside change of the file among log[i..j]
NoResetIn(i, j) == \A k \in i..j : log[k].ev = "run"

\* log[i] is a run that has ended
Ended(i) == log[i].ev = "run" /\ log[i].exit # "running"

\* the log is a sequence of ended runs, all Live, with no outside change
AllLiveRuns == \A i \in DOMAIN log : Ended(i) /\ log[i].status = "live"

(* C1: a run that starts with the persisted alerted = true calls send_email
   zero times, and so does every later run, until the state file is changed
   from outside the program. *)
C1_NoSendOnceAlerted ==
    \A i \in DOMAIN log : \A j \in i..Len(log) :
        (NoResetIn(i, j) /\ log[i].file = JsonObject("true"))
            => (log[j].send = "none" /\ log[j].file = JsonObject("true"))

C1_Witness ==
    /\ Len(log) = 3
    /\ NoResetIn(1, 3)
    /\ log[1].file = JsonObject("true")
    /\ \A i \in 1..3 : log[i].status = "live" /\ log[i].exit = "0"

(* C2 as stated: over a sequence of runs that starts with alerted = false, all
   Live, in which a send succeeded, the notify decision was true in exactly
   one run. *)
C2_NotifyExactlyOnce ==
    (/\ log # <<>>
     /\ AllLiveRuns
     /\ ~log[1].alerted
     /\ \E i \in DOMAIN log : log[i].send = "ok")
        => Cardinality({i \in DOMAIN log : log[i].send # "none"}) = 1

(* C2 amended: over a sequence of runs that starts with alerted = false, all
   Live, the notify decision is true in every run up to and including the
   first run whose send succeeds and in no later run, and at most one send
   succeeds. *)
C2_NotifyUntilFirstSuccess ==
    (/\ log # <<>>
     /\ AllLiveRuns
     /\ ~log[1].alerted)
        => /\ \A i \in DOMAIN log :
                (log[i].send # "none") <=> (\A j \in 1..(i - 1) : log[j].send # "ok")
           /\ Cardinality({i \in DOMAIN log : log[i].send = "ok"}) <= 1

C2_Witness ==
    /\ Len(log) = 3
    /\ AllLiveRuns
    /\ ~log[1].alerted
    /\ log[1].send = "missing"
    /\ log[2].send = "ok"
    /\ log[3].send = "none"

(* C3: every run that reaches the mail step ends normally with exit status 0,
   whatever the mail step meets; no exception leaves main(). *)
C3_MailStepNeverRaises ==
    \A i \in DOMAIN log :
        (Ended(i) /\ log[i].status # "none") => log[i].exit = "0"

(* C4: a run writes the state file at most once, and only when the result is
   Live, the loaded state was not alerted and send_email reported success, and
   then alerted is true in the file; in every other run the file after the
   run is the file before it. *)
C4_WriteOnlyOnFirstSuccess ==
    \A i \in DOMAIN log :
        IsRun(log[i]) =>
            /\ log[i].wrote <= 1
            /\ log[i].wrote = 1 =>
                    /\ log[i].status = "live"
                    /\ ~log[i].alerted
                    /\ log[i].send = "ok"
                    /\ log[i].after = JsonObject("true")
            /\ (log[i].wrote = 1) <=>
                    (log[i].status = "live" /\ ~log[i].alerted /\ log[i].send = "ok")
            /\ log[i].wrote = 0 => log[i].after = log[i].file
            /\ i = Len(log) => file = log[i].after

C4_Witness ==
    \E i \in DOMAIN log :
        /\ Ended(i)
        /\ log[i].wrote = 1
        /\ log[i].file = Garbage
        /\ log[i].after = JsonObject("true")

\* a JSON object whose "alerted" is a boolean
WellFormed(f) == f.kind = "object" /\ f.alerted \in {"true", "false"}

(* C5: whatever the state file holds at the start of a run that is not a JSON
   object with a boolean alerted (absent, not JSON, or other JSON), the run
   takes the state as {} with alerted = false and goes on to the scan. *)
C5_BadFileIsEmptyState ==
    \A i \in DOMAIN log :
        (IsRun(log[i]) /\ ~WellFormed(log[i].file))
            => (log[i].state.kind = "dict" /\ ~log[i].alerted)

(* C10: a failed send loses no alert.  After a Live run with alerted = false
   whose send did not succeed the file is unchanged, the next run starts with
   alerted = false and, if Live, calls send_email again; once a send succeeds
   alerted is true in the file and in every later run, up to an outside
   change of the file. *)
C10_FailedSendKeepsAlert ==
    /\ \A i \in DOMAIN log :
         (/\ Ended(i)
          /\ log[i].status = "live"
          /\ ~log[i].alerted
          /\ log[i].send # "ok")
            => /\ log[i].send \in {"missing", "fail"}
               /\ log[i].after = log[i].file
               /\ (i < Len(log) /\ IsRun(log[i + 1]))
                    => /\ ~log[i + 1].alerted
                       /\ (Ended(i + 1) /\ log[i + 1].status = "live")
                            => log[i + 1].send # "none"
    /\ \A i \in DOMAIN log : \A j \in (i + 1)..Len(log) :
         (NoResetIn(i, j) /\ log[i].send = "ok")
            => /\ log[i].after = JsonObject("true")
               /\ log[j].alerted
               /\ log[j].send = "none"

C10_Witness ==
    /\ Len(log) = 3
    /\ AllLiveRuns
    /\ log[1].send = "fail"
    /\ log[1].exit = "raised"
    /\ log[2].send = "ok"
    /\ log[3].alerted

(***************************************************************************)
(* Texts of the pages the model draws from.                                *)
(***************************************************************************)
\* 'INOX Laila mg Road'
InoxPlain ==
    <<"I", "N", "O", "X", " ", "L", "a", "i", "l", "a", " ", "m", "g", " ",
      "R", "o", "a", "d">>

\* 'PVR: Ripples Mall'
PvrName ==
    <<"P", "V", "R", ":", " ", "R", "i", "p", "p", "l", "e", "s", " ", "M",
      "a", "l", "l">>

\* 'Demon Slayer: Kimetsu no Yaiba Infinity Castle - (Japanese)'
DemonTitle ==
    <<"D", "e", "m", "o", "n", " ", "S", "l", "a", "y", "e", "r", ":", " ",
      "K", "i", "m", "e", "t", "s", "u", " ", "n", "o", " ", "Y", "a", "i",
      "b", "a", " ", "I", "n", "f", "i", "n", "i", "t", "y", " ", "C", "a",
      "s", "t", "l", "e", " ", "-", " ", "(", "J", "a", "p", "a", "n", "e",
      "s", "e", ")">>

\* 'Jawan'
OtherTitle ==
    <<"J", "a", "w", "a", "n">>

\* ' 10:30 AM '
T1030 ==
    <<" ", "1", "0", ":", "3", "0", " ", "A", "M", " ">>

\* '1:15 PM'
T115 ==
    <<"1", ":", "1", "5", " ", "P", "M">>

\* '6:00 PM'
T600 ==
    <<"6", ":", "0", "0", " ", "P", "M">>

\* '21:45'
T2145 ==
    <<"2", "1", ":", "4", "5">>

\* 'Book'
TBook ==
    <<"B", "o", "o", "k">>

\* class='showtime'
ClsShow ==
    <<"s", "h", "o", "w", "t", "i", "m", "e">>

\* class='showtime Disabled'
ClsDisabled ==
    <<"s", "h", "o", "w", "t", "i", "m", "e", " ", "D", "i", "s", "a", "b",
      "l", "e", "d">>

(***************************************************************************)
(* run_check(): the listing locator and the showtime scanner.              *)
(***************************************************************************)
\* None, the empty string and the empty list
None == <<>>

\* An href is kept as its leading character and the rest of the path.
HrefDemon == <<"/", "movie/demon-slayer/ET001">>

HrefDemonAbs == <<"https://in.bookmyshow.com/", "movie/demon-slayer/ET001">>

HrefDemonLink == <<"/", "vijayawada/movie/demon-slayer/ET002">>

HrefOther == <<"/", "movie/jawan/ET003">>

SITE_ORIGIN == <<"https://in.bookmyshow.com">>

\* "https://in.bookmyshow.com" + href if href.startswith("/") else href
Resolve(href) == IF Head(href) = "/" THEN SITE_ORIGIN \o href ELSE href

\* A listing card, or an anchor of the fallback list: the text of its title
\* element (raises: inner_text() throws; has_title: a title element exists)
\* and the href of its anchor (None: no anchor, or no href).
Item(title, has_title, raises, href) ==
    [title |-> title, has_title |-> has_title, raises |-> raises, href |-> href]

CardTypes ==
    { Item(DemonTitle, TRUE, FALSE, HrefDemon),
      Item(DemonTitle, TRUE, FALSE, None),
      Item(DemonTitle, TRUE, FALSE, HrefDemonAbs),
      Item(DemonTitle, TRUE, TRUE, HrefOther),
      Item(OtherTitle, TRUE, FALSE, HrefOther) }

AnchorTypes ==
    { Item(DemonTitle, TRUE, FALSE, HrefDemonLink),
      Item(OtherTitle, TRUE, FALSE, HrefOther) }

\* title = title_el.inner_text().strip() if title_el else "", "" on an exception
CardTitle(card) ==
    IF card.raises \/ ~card.has_title THEN None ELSE Strip(card.title)

\* the loop over the cards: the first card whose title matches and whose
\* anchor has an href gives the link
RECURSIVE CardLink(_)
CardLink(cards) ==
    IF cards = <<>> THEN None
    ELSE IF contains_all(CardTitle(Head(cards)), MOVIE_KEYWORDS) /\ Head(cards).href # None
         THEN Resolve(Head(cards).href)
         ELSE CardLink(Tail(cards))

\* the loop over a[href*="/movie/"]
RECURSIVE AnchorLink(_)
AnchorLink(anchors) ==
    IF anchors = <<>> THEN None
    ELSE IF contains_all(Strip(Head(anchors).title), MOVIE_KEYWORDS) /\ Head(anchors).href # None
         THEN Resolve(Head(anchors).href)
         ELSE AnchorLink(Tail(anchors))

\* A slip: the anchors searched only when the page has no card.
Locator_cards_only(cards, anchors) ==
    IF cards # <<>> THEN CardLink(cards) ELSE AnchorLink(anchors)

\* movie_link: the cards first, the anchors if the cards gave no link
Locator(cards, anchors) ==
    IF CardLink(cards) # None THEN CardLink(cards) ELSE AnchorLink(anchors)

(***************************************************************************)
(* The time pattern \b\d{1,2}:\d{2}\s*(AM|PM)?\b, searched with re.I.      *)
(***************************************************************************)
WordAt(t, i) == i \in DOMAIN t /\ IsWord(t[i])

\* \b between t[i-1] and t[i]
Boundary(t, i) == WordAt(t, i - 1) # WordAt(t, i)

DigitAt(t, i) == i \in DOMAIN t /\ IsDigit(t[i])

CharAt(t, i, c) == i \in DOMAIN t /\ LowerChar(t[i]) = c

\* (AM|PM) at t[j], case ignored
MeridiemAt(t, j) == (CharAt(t, j, "a") \/ CharAt(t, j, "p")) /\ CharAt(t, j + 1, "m")

\* \s*(AM|PM)?\b from t[j] on
TimeTail(t, j) ==
    \E k \in j..(Len(t) + 1) :
        /\ \A x \in j..(k - 1) : IsSpace(t[x])
        /\ \/ Boundary(t, k)
           \/ MeridiemAt(t, k) /\ Boundary(t, k + 2)

\* the pattern matched from t[i] on
TimeAt(t, i) ==
    /\ Boundary(t, i)
    /\ \E n \in {1, 2} :
        /\ \A x \in i..(i + n - 1) : DigitAt(t, x)
        /\ CharAt(t, i + n, ":")
        /\ DigitAt(t, i + n + 1)
        /\ DigitAt(t, i + n + 2)
        /\ TimeTail(t, i + n + 3)

\* re.search(pattern, t, re.I)
HasTime(t) == \E i \in DOMAIN t : TimeAt(t, i)

(***************************************************************************)
(* The detail page: venue-name elements and the buttons around them.       *)
(***************************************************************************)
\* an <a> or <button>: its inner text and its class attribute (None: no class)
Button(t, cls) == [text |-> t, cls |-> cls]

B1030 == Button(T1030, ClsShow)

B115 == Button(T115, None)

B600Disabled == Button(T600, ClsDisabled)

B2145 == Button(T2145, ClsShow)

BBook == Button(TBook, ClsShow)

\* A venue-name element: its inner text (raises: inner_text() throws), the
\* buttons under the element itself and under each ancestor that resolves
\* (ancestors[1] is the element, ancestors[2] its parent, ...), and the
\* button at which reading the block throws (0: none does).
Venue(t, raises, ancestors, fails_at) ==
    [text |-> t, raises |-> raises, ancestors |-> ancestors, fails_at |-> fails_at]

ElPvr == Venue(PvrName, FALSE, <<None, None, None, <<B1030, B115>> >>, 0)

ElInoxDots == Venue(InoxName, FALSE, <<None, None, None, <<B1030>> >>, 0)

ElRaises == Venue(InoxPlain, TRUE, <<None, None, None, <<B1030>> >>, 0)

ElInoxNoTimes == Venue(InoxPlain, FALSE, <<None, None, None, <<BBook, B600Disabled>> >>, 0)

ElInoxB == Venue(InoxPlain, FALSE, <<None, None, None, <<B1030, BBook, B115, B600Disabled>> >>, 0)

ElInoxLate == Venue(InoxPlain, FALSE, <<None, None, None, <<B2145>>, <<B2145, B1030>> >>, 0)

ElInoxShallow == Venue(InoxPlain, FALSE, <<None, <<B115, B2145, B1030>> >>, 3)

ElInoxMany ==
    Venue(InoxPlain, FALSE,
          <<None, None, None,
            <<B1030, B115, B2145, B1030, B115, B2145, B1030, B115, B2145, B1030, B115, B2145>> >>,
          0)

Views ==
    { <<>>,
      <<ElPvr, ElInoxDots>>,
      <<ElRaises, ElInoxNoTimes, ElInoxB, ElInoxLate>>,
      <<ElPvr, ElInoxLate>>,
      <<ElInoxShallow>>,
      <<ElInoxMany>> }

\* for _ in range(3)
CLIMB_LEVELS == 3

\* times[:10]
TIMES_CAP == 10

\* block = el, then up to CLIMB_LEVELS parents; an ancestor that does not
\* resolve ends the climb
RECURSIVE Climb(_, _, _)
Climb(el, level, left) ==
    IF left = 0 \/ level + 1 > Len(el.ancestors) THEN level
    ELSE Climb(el, level + 1, left - 1)

Block(el) == el.ancestors[Climb(el, 1, CLIMB_LEVELS)]

\* the test of one button: the time pattern in its stripped text, and no
\* "disabled" in its normalized class
IsTimeLabel(b) ==
    /\ HasTime(Strip(b.text))
    /\ ~StrIn(<<"d", "i", "s", "a", "b", "l", "e", "d">>, normalize(b.cls))

\* the loop over block.query_selector_all("a, button"); an exception ends
\* it and keeps what was collected
RECURSIVE Collect(_, _, _)
Collect(bs, k, fails_at) ==
    IF bs = <<>> \/ k = fails_at THEN <<>>
    ELSE (IF IsTimeLabel(Head(bs)) THEN <<Strip(Head(bs).text)>> ELSE <<>>)
            \o Collect(Tail(bs), k + 1, fails_at)

BtnTimes(el) == Collect(Block(el), 1, el.fails_at)

Miss == [hit |-> FALSE, name |-> None, times |-> <<>>]

\* A slip: no return at the first theatre with times, so the last one wins.
RECURSIVE scan_last(_)
scan_last(venues) ==
    IF venues = <<>> THEN Miss
    ELSE LET el == Head(venues)
             name == Strip(el.text)
             rest == scan_last(Tail(venues))
         IN  IF rest.hit THEN rest
             ELSE IF el.raises \/ name = None \/ ~contains_all(name, THEATRE_KEYWORDS)
                  THEN Miss
             ELSE IF BtnTimes(el) # <<>>
                  THEN [hit |-> TRUE, name |-> name, times |-> BtnTimes(el)]
             ELSE Miss

\* scan(): the loop over the venue-name elements, ended by the first one
\* whose name matches and whose block gives a time
RECURSIVE scan(_)
scan(venues) ==
    IF venues = <<>> THEN Miss
    ELSE LET el == Head(venues)
             name == Strip(el.text)
         IN  IF el.raises THEN scan(Tail(venues))
             ELSE IF name = None \/ ~contains_all(name, THEATRE_KEYWORDS)
                  THEN scan(Tail(venues))
             ELSE IF BtnTimes(el) # <<>>
                  THEN [hit |-> TRUE, name |-> name, times |-> BtnTimes(el)]
             ELSE scan(Tail(venues))

\* s[:n]
FirstN(s, n) == SubSeq(s, 1, IF Len(s) < n THEN Len(s) ELSE n)

\* the value run_check returns after the scans
Returned(found, name, ts) ==
    IF found THEN [status |-> "live", theatre |-> name, times |-> FirstN(ts, TIMES_CAP)]
    ELSE [status |-> "no-showtimes", theatre |-> None, times |-> <<>>]

NoMovieCard == [status |-> "no-movie-card", theatre |-> None, times |-> <<>>]

\* the two date-tab selectors tried in turn
DATE_SELECTORS == <<"dateFilter button", "button aria-label Select date">>

ListingPage(timeout, cards, anchors) ==
    [kind |-> "listing", timeout |-> timeout, cards |-> cards, anchors |-> anchors,
     venues |-> <<>>]

DetailPage(v) ==
    [kind |-> "detail", timeout |-> FALSE, cards |-> <<>>, anchors |-> <<>>, venues |-> v]

\* The listing pages: the wait for a card or an anchor times out on a page
\* with neither, and passes on a page with at least one.
ListingPages ==
    {ListingPage(TRUE, <<>>, <<>>)} \cup
    { ListingPage(FALSE, c, a) :
        <<c, a>> \in { p \in SeqsUpTo(CardTypes, MaxCards) \X SeqsUpTo(AnchorTypes, MaxAnchors) :
                        p[1] # <<>> \/ p[2] # <<>> } }

NoHistory ==
    [clicks |-> 0, scans |-> 0, first_tab |-> FALSE, hit |-> Miss,
     clicks_after |-> 0, scans_after |-> 0,
     before |-> [found |-> FALSE, name |-> None, times |-> <<>>]]

InitCheck ==
    /\ rpc = "listing"
    /\ page \in ListingPages
    /\ CHECK_DATES_AHEAD \in 0..MaxAhead
    /\ movie_link = None
    /\ found_show = FALSE
    /\ theatre_name = None
    /\ times = <<>>
    /\ sel = 0
    /\ tabs = 0
    /\ ti = 0
    /\ ret = NoResult
    /\ hist = NoHistory
    /\ MainOff
    /\ TextOff

\* lines 114-154: the wait for the listing, the cards, the anchors
Locate ==
    /\ rpc = "listing"
    /\ movie_link' = IF page.timeout THEN None ELSE Locator(page.cards, page.anchors)
    /\ IF movie_link' = None
       THEN rpc' = "returned" /\ ret' = NoMovieCard
       ELSE rpc' = "located" /\ UNCHANGED ret
    /\ UNCHANGED <<page, CHECK_DATES_AHEAD, found_show, theatre_name, times, sel, tabs, ti, hist>>
    /\ UNCHANGED <<mainVars, textVars>>

\* lines 157-167: the movie page opened, the Book button tried
OpenDetail ==
    /\ rpc = "located"
    /\ \E v \in Views : page' = DetailPage(v)
    /\ rpc' = "detail"
    /\ UNCHANGED <<CHECK_DATES_AHEAD, movie_link, found_show, theatre_name, times, sel, tabs,
                   ti, ret, hist>>
    /\ UNCHANGED <<mainVars, textVars>>

\* the locals and the history (h: the history before) after scan() has run
\* on the venues v
Scanned(v, h) ==
    LET s == scan(v)
    IN  /\ found_show' = (found_show \/ s.hit)
        /\ theatre_name' = IF s.hit THEN s.name ELSE theatre_name
        /\ times' = IF s.hit THEN s.times ELSE times
        /\ hist' = [h EXCEPT
                      !.scans = @ + 1,
                      !.scans_after = IF h.hit.hit THEN @ + 1 ELSE @,
                      !.hit = IF ~h.hit.hit /\ s.hit THEN s ELSE @,
                      !.before = [found |-> found_show, name |-> theatre_name,
                                  times |-> times]]

\* line 210: scan() on today's view; line 212: the dates only if not found
ScanToday ==
    /\ rpc = "detail"
    /\ Scanned(page.venues, hist)
    /\ IF found_show' THEN rpc' = "closing" /\ sel' = 0 ELSE rpc' = "dates" /\ sel' = 1
    /\ UNCHANGED <<page, CHECK_DATES_AHEAD, movie_link, tabs, ti, ret>>
    /\ UNCHANGED <<mainVars, textVars>>

\* the outer loop moves to its next selector, or ends
NextSelector ==
    IF sel < Len(DATE_SELECTORS)
    THEN rpc' = "dates" /\ sel' = sel + 1
    ELSE rpc' = "closing" /\ sel' = sel

\* lines 213-216: one selector of the outer loop; is_visible false or
\* throwing passes to the next selector
Selector ==
    /\ rpc = "dates"
    /\ \/ /\ NextSelector
          /\ UNCHANGED <<tabs, ti>>
       \/ \E n \in 1..MaxTabs :
            /\ tabs' = n
            /\ ti' = 1
            /\ rpc' = "tabs"
            /\ UNCHANGED sel
    /\ UNCHANGED <<page, CHECK_DATES_AHEAD, movie_link, found_show, theatre_name, times, ret,
                   hist>>
    /\ UNCHANGED <<mainVars, textVars>>

\* the last index of tabs[1:CHECK_DATES_AHEAD + 1]
LastTab == IF CHECK_DATES_AHEAD < tabs - 1 THEN CHECK_DATES_AHEAD ELSE tabs - 1

Clicked ==
    [hist EXCEPT !.clicks = @ + 1,
                 !.clicks_after = IF hist.hit.hit THEN @ + 1 ELSE @,
                 !.first_tab = @ \/ ti = 0]

\* lines 217-226, t.click() or the wait throwing: swallowed, next tab
ClickTabFails ==
    /\ rpc = "tabs"
    /\ ti <= LastTab
    /\ hist' = Clicked
    /\ ti' = ti + 1
    /\ UNCHANGED <<rpc, page, CHECK_DATES_AHEAD, movie_link, found_show, theatre_name, times,
                   sel, tabs, ret>>
    /\ UNCHANGED <<mainVars, textVars>>

\* lines 217-226: the tab clicked, the page settled, scan(), break if found_show
ClickTabScans ==
    /\ rpc = "tabs"
    /\ ti <= LastTab
    /\ \E v \in Views : page' = DetailPage(v) /\ Scanned(v, Clicked)
    /\ IF found_show'
       THEN NextSelector /\ UNCHANGED ti
       ELSE ti' = ti + 1 /\ UNCHANGED <<rpc, sel>>
    /\ UNCHANGED <<CHECK_DATES_AHEAD, movie_link, tabs, ret>>
    /\ UNCHANGED <<mainVars, textVars>>

\* the slice of tabs is exhausted
TabsDone ==
    /\ rpc = "tabs"
    /\ ti > LastTab
    /\ NextSelector
    /\ UNCHANGED <<page, CHECK_DATES_AHEAD, movie_link, found_show, theatre_name, times,
                   tabs, ti, ret, hist>>
    /\ UNCHANGED <<mainVars, textVars>>

\* lines 230-235: the browser closed, the result returned
Return ==
    /\ rpc = "closing"
    /\ ret' = Returned(found_show, theatre_name, times)
    /\ rpc' = "returned"
    /\ UNCHANGED <<page, CHECK_DATES_AHEAD, movie_link, found_show, theatre_name, times,
                   sel, tabs, ti, hist>>
    /\ UNCHANGED <<mainVars, textVars>>

NextCheck ==
    \/ Locate \/ OpenDetail \/ ScanToday \/ Selector
    \/ ClickTabFails \/ ClickTabScans \/ TabsDone \/ Return

SpecCheck == InitCheck /\ [][NextCheck]_vars

\* the least element of a non-empty set of numbers
Least(S) == CHOOSE i \in S : \A j \in S : i <= j

\* every keyword of kws occurs in the normalized text t
AllOccur(kws, t) == \A i \in DOMAIN kws : Occurs(kws[i], normalize(t))

\* a candidate that can give a link: its title text contains all movie
\* keywords and its anchor has an href
Eligible(c) == AllOccur(MOVIE_KEYWORDS, CardTitle(c)) /\ c.href # None

\* the candidates as stated: the cards, the anchors only on a page without
\* cards
Candidates == IF page.cards # <<>> THEN page.cards ELSE page.anchors

\* the candidates in the order tried: the cards, then the anchors
CardsThenAnchors == page.cards \o page.anchors

\* the first candidate of cs that can give a link has href h
FirstEligibleHref(cs, h) ==
    LET E == {i \in DOMAIN cs : Eligible(cs[i])}
    IN  E # {} /\ cs[Least(E)].href = h

\* the link is the href h made absolute
LinkOf(h) == IF h[1] = "/" THEN movie_link = SITE_ORIGIN \o h ELSE movie_link = h

LocatorDone == rpc \in {"located", "returned"} /\ page.kind = "listing" /\ ~page.timeout

(* C8 as stated: the locator goes through the listing cards, and through the
   movie anchors only when the page has no card; it returns the resolved URL
   of the first candidate whose title contains all movie keywords, and
   no-movie-card exactly when no candidate matches. *)
C8_AnchorsOnlyWithoutCards ==
    LocatorDone =>
        IF \E i \in DOMAIN Candidates : Eligible(Candidates[i])
        THEN /\ rpc = "located"
             /\ \E h \in {c.href : c \in Range(Candidates)} :
                    FirstEligibleHref(Candidates, h) /\ LinkOf(h)
        ELSE rpc = "returned" /\ ret = NoMovieCard

(* C8 amended: the locator goes through the listing cards and then, whenever
   no card gave a link, through the movie anchors; it returns the resolved
   URL of the first card, else of the first anchor, whose title contains all
   movie keywords and whose anchor has an href, and no-movie-card exactly when
   there is no such card or anchor. *)
C8_CardsThenAnchors ==
    LocatorDone =>
        IF \E i \in DOMAIN CardsThenAnchors : Eligible(CardsThenAnchors[i])
        THEN /\ rpc = "located"
             /\ \E h \in {c.href : c \in Range(CardsThenAnchors)} :
                    FirstEligibleHref(CardsThenAnchors, h) /\ LinkOf(h)
        ELSE rpc = "returned" /\ ret = NoMovieCard /\ movie_link = None

C8_Witness ==
    /\ rpc = "located"
    /\ page.kind = "listing"
    /\ Len(page.cards) = 2
    /\ \A i \in DOMAIN page.cards : ~Eligible(page.cards[i])
    /\ Len(page.anchors) = 2
    /\ ~Eligible(page.anchors[1])
    /\ movie_link = SITE_ORIGIN \o page.anchors[2].href

(* C7: the first tab is never clicked; each click is followed by at most one
   scan; at most CHECK_DATES_AHEAD tabs are clicked in the whole run; after
   the first scan that succeeds no tab is clicked and no scan is run; and the
   theatre and times returned are those of that first successful scan. *)
C7_DateTabsStopAtFirstSuccess ==
    /\ ~hist.first_tab
    /\ hist.scans <= hist.clicks + 1
    /\ hist.clicks <= CHECK_DATES_AHEAD
    /\ hist.clicks_after = 0
    /\ hist.scans_after = 0
    /\ (rpc = "returned" /\ ret.status = "live")
            => /\ ret.theatre = hist.hit.name
               /\ ret.times = SubSeq(hist.hit.times, 1, Len(ret.times))

\* the block of a venue-name element: its third ancestor, or the last one
\* that resolves
TopBlock(el) == el.ancestors[IF Len(el.ancestors) < 4 THEN Len(el.ancestors) ELSE 4]

\* the buttons of the block read before an exception
ReadButtons(el) ==
    IF el.fails_at = 0 \/ el.fails_at > Len(TopBlock(el)) THEN TopBlock(el)
    ELSE SubSeq(TopBlock(el), 1, el.fails_at - 1)

\* the time labels of the block, in document order
Labels(el) ==
    LET bs == SelectSeq(ReadButtons(el), IsTimeLabel)
    IN  [i \in DOMAIN bs |-> Strip(bs[i].text)]

\* the venue-name elements of the view v whose name matches the theatre
\* keywords and whose block has a time label
LiveVenues(v) ==
    {i \in DOMAIN v : /\ ~v[i].raises
                      /\ Strip(v[i].text) # <<>>
                      /\ AllOccur(THEATRE_KEYWORDS, Strip(v[i].text))
                      /\ Labels(v[i]) # <<>>}

(* C9: a scan takes the first venue-name element, in document order, whose
   name contains all theatre keywords and whose block has a time label; its
   name and its labels become theatre_name and times, and a scan without
   such an element changes nothing.  A Live result carries theatre_name and
   the first ten of times: between 1 and 10 entries. *)
C9_FirstTheatreWithTimes ==
    /\ (rpc \in {"dates", "tabs", "closing", "returned"} /\ page.kind = "detail")
        => IF LiveVenues(page.venues) = {}
           THEN /\ found_show = hist.before.found
                /\ theatre_name = hist.before.name
                /\ times = hist.before.times
           ELSE /\ found_show
                /\ theatre_name = Strip(page.venues[Least(LiveVenues(page.venues))].text)
                /\ times = Labels(page.venues[Least(LiveVenues(page.venues))])
    /\ (rpc = "returned" /\ ret.status = "live")
        => /\ found_show
           /\ ret.theatre = theatre_name
           /\ Len(ret.times) >= 1
           /\ Len(ret.times) <= 10
           /\ Len(ret.times) = (IF Len(times) > 10 THEN 10 ELSE Len(times))
           /\ ret.times = SubSeq(times, 1, Len(ret.times))

C9_Witness ==
    /\ rpc = "returned"
    /\ ret.status = "live"
    /\ page.kind = "detail"
    /\ Len(page.venues) = 4
    /\ Least(LiveVenues(page.venues)) = 3
    /\ ret.times = <<Strip(T1030), T115>>

=============================================================================
